---- MODULE Spec2Model ----
(***************************************************************************)
(* Model of kornia/filters/bilateral.py: the function bilateral_blur and   *)
(* the module BilateralBlur that stores its configuration.                 *)
(*                                                                         *)
(* Tensors are records [shape, data]: shape is the sequence of dimension   *)
(* sizes, data maps every 1-based index tuple to a value.  Pixel values    *)
(* are integers.  Weights (the results of exp) are fixed-point numbers in  *)
(* units of 1/100: exp(0) is exactly 100 and a weight below 1/100          *)
(* underflows to 0, as a float weight underflows below the smallest        *)
(* subnormal.  A sigma_color of SigmaTiny stands for a positive finite     *)
(* float whose square underflows to zero (1e-30 in float32).  The output   *)
(* of the normalised aggregation is kept as the exact pair                 *)
(* <<numerator, denominator>>; rounding of float sums and quotients is not *)
(* modelled.                                                               *)
(***************************************************************************)
EXTENDS Integers, Sequences, FiniteSets, TLC

\* ------------------------------------------------------------------ bounds
MaxB == 2
MaxC == 2
MaxH == 2
MaxW == 2
MaxK == 3
MaxVal == 2

\* ------------------------------------------------------- tensor primitives
NaN == -1

RECURSIVE SeqSum(_)
SeqSum(s) == IF s = <<>> THEN 0 ELSE Head(s) + SeqSum(Tail(s))

\* A float sum: NaN if any addend is NaN.
FSum(s) == IF \E i \in 1..Len(s) : s[i] = NaN THEN NaN ELSE SeqSum(s)

\* A float product of two weights, or of a pixel value and a weight.
FMul(a, b) == IF a = NaN \/ b = NaN THEN NaN ELSE a * b

Abs(x) == IF x < 0 THEN -x ELSE x

Idx(s) ==
    IF Len(s) = 3 THEN {<<a, b, c>> : a \in 1..s[1], b \in 1..s[2], c \in 1..s[3]}
    ELSE IF Len(s) = 4
    THEN {<<a, b, c, d>> : a \in 1..s[1], b \in 1..s[2], c \in 1..s[3], d \in 1..s[4]}
    ELSE {<<a, b, c, d, e>> : a \in 1..s[1], b \in 1..s[2], c \in 1..s[3],
                              d \in 1..s[4], e \in 1..s[5]}

NoTensor == [shape |-> <<>>, data |-> <<>>]

\* Broadcasting of two shapes of equal rank: each dimension equal, or one of them 1.
BroadcastOk(s, t) ==
    /\ Len(s) = Len(t)
    /\ \A i \in 1..Len(s) : s[i] = t[i] \/ s[i] = 1 \/ t[i] = 1

BroadcastShape(s, t) == [i \in 1..Len(s) |-> IF s[i] = 1 THEN t[i] ELSE s[i]]

\* The index of a tensor of shape s that the broadcast index ix reads.
BIdx(ix, s) == [i \in 1..Len(s) |-> IF s[i] = 1 THEN 1 ELSE ix[i]]

At(t, ix) == t.data[BIdx(ix, t.shape)]

\* exp(-n/8) in units of 1/100, by repeated multiplication with exp(-1/8) = 0.88;
\* 0 from n = 25 on (underflow).
ExpTab[n \in 0..25] == IF n = 0 THEN 100 ELSE (ExpTab[n - 1] * 88) \div 100

\* exp(-num/den) for num >= 0, den > 0.
ExpQ(num, den) ==
    LET n == (num * 8) \div den
    IN  IF n > 25 THEN 0 ELSE ExpTab[n]

\* ------------------------------------------------------------ the inputs
\* kernel_size: tuple[int, int] | int and sigma_color: float | Tensor are tagged
\* unions; v holds the component(s).
IntKernel(k) == [is_int |-> TRUE, v |-> <<k>>]
PairKernel(a, b) == [is_int |-> FALSE, v |-> <<a, b>>]
ScalarSigma(s) == [is_tensor |-> FALSE, v |-> <<s>>]
TensorSigma(v) == [is_tensor |-> TRUE, v |-> v]

\* A positive finite sigma whose square underflows to zero.
SigmaTiny == 0

Borders == {"constant", "reflect", "replicate", "circular"}

\* ------------------------------------------- collaborators of bilateral_blur
\* KORNIA_CHECK_SHAPE(x, dims) as lines 52 and 54 call it: it is handed one tensor
\* and a list of dimension names, so it compares the tensor's rank with the list.
KORNIA_CHECK_SHAPE(shape, dims) == Len(shape) = Len(dims)

\* kernels._unpack_2d_ks: an int stands for both components, a pair is returned in
\* its own order.
unpack_2d_ks(kernel_size) ==
    IF kernel_size.is_int
    THEN <<kernel_size.v[1], kernel_size.v[1]>>
    ELSE <<kernel_size.v[1], kernel_size.v[2]>>

\* median._compute_zero_padding: (k - 1) // 2 for each component, in the same order.
compute_zero_padding(kernel_size) ==
    LET u == unpack_2d_ks(kernel_size)
    IN  <<(u[1] - 1) \div 2, (u[2] - 1) \div 2>>

\* The position of the source pixel that position i (1-based, relative to the
\* unpadded axis of length n) of the padded axis shows; 0 is the zero fill.
PadSrc(i, n, mode) ==
    IF 1 <= i /\ i <= n THEN i
    ELSE IF mode = "constant" THEN 0
    ELSE IF mode = "replicate" THEN (IF i < 1 THEN 1 ELSE n)
    ELSE IF mode = "reflect" THEN (IF i < 1 THEN 2 - i ELSE 2 * n - i)
    ELSE ((i - 1 + n) % n) + 1

\* torch.nn.functional.pad of a 4-D tensor with p = (left, right, top, bottom):
\* left/right extend the last axis (W), top/bottom the axis before it (H).
\* reflect needs every pad below the axis length, circular at most the axis length.
PadOk(t, p, mode) ==
    LET H == t.shape[3]
        W == t.shape[4]
    IN  /\ mode = "reflect" => (p[1] < W /\ p[2] < W /\ p[3] < H /\ p[4] < H)
        /\ mode = "circular" => (p[1] <= W /\ p[2] <= W /\ p[3] <= H /\ p[4] <= H)

pad(t, p, mode) ==
    LET H == t.shape[3]
        W == t.shape[4]
        shape == <<t.shape[1], t.shape[2], H + p[3] + p[4], W + p[1] + p[2]>>
    IN  [shape |-> shape,
         data |-> [ix \in Idx(shape) |->
            LET si == PadSrc(ix[3] - p[3], H, mode)
                sj == PadSrc(ix[4] - p[1], W, mode)
            IN  IF si = 0 \/ sj = 0 THEN 0 ELSE t.data[<<ix[1], ix[2], si, sj>>]]]

\* Tensor.unfold(2, sy, 1).unfold(3, sx, 1).flatten(-2): windows of sy rows and sx
\* columns at step 1; the window's samples are flattened row by row.
UnfoldOk(t, sy, sx) == sy <= t.shape[3] /\ sx <= t.shape[4]

unfold(t, sy, sx) ==
    LET shape == <<t.shape[1], t.shape[2], t.shape[3] - sy + 1, t.shape[4] - sx + 1, sy * sx>>
    IN  [shape |-> shape,
         data |-> [ix \in Idx(shape) |->
            t.data[<<ix[1], ix[2], ix[3] + ((ix[5] - 1) \div sx), ix[4] + ((ix[5] - 1) % sx)>>]]]

\* Tensor.unsqueeze(-1)
unsqueeze(t) ==
    LET shape == Append(t.shape, 1)
    IN  [shape |-> shape,
         data |-> [ix \in Idx(shape) |-> t.data[SubSeq(ix, 1, Len(t.shape))]]]

\* x - y with broadcasting
sub(x, y) ==
    LET shape == BroadcastShape(x.shape, y.shape)
    IN  [shape |-> shape, data |-> [ix \in Idx(shape) |-> At(x, ix) - At(y, ix)]]

\* x * y with broadcasting
mul(x, y) ==
    LET shape == BroadcastShape(x.shape, y.shape)
    IN  [shape |-> shape, data |-> [ix \in Idx(shape) |-> FMul(At(x, ix), At(y, ix))]]

\* diff.abs().sum(1, keepdim=True).square()
l1_distance(d) ==
    LET shape == [d.shape EXCEPT ![2] = 1]
    IN  [shape |-> shape,
         data |-> [ix \in Idx(shape) |->
            LET s == SeqSum([c \in 1..d.shape[2] |-> Abs(d.data[[ix EXCEPT ![2] = c]])])
            IN  s * s]]

\* diff.square().sum(1, keepdim=True)
l2_distance(d) ==
    LET shape == [d.shape EXCEPT ![2] = 1]
    IN  [shape |-> shape,
         data |-> [ix \in Idx(shape) |->
            SeqSum([c \in 1..d.shape[2] |->
                d.data[[ix EXCEPT ![2] = c]] * d.data[[ix EXCEPT ![2] = c]]])]]

\* exp(-0.5 / sigma**2 * distance) for one entry.  With sigma**2 = 0 the factor is
\* -inf: -inf * 0 is NaN, and exp(-inf) is 0.
color_weight(distance, sigma) ==
    IF sigma * sigma = 0
    THEN (IF distance = 0 THEN NaN ELSE 0)
    ELSE ExpQ(distance, 2 * sigma * sigma)

\* sigma_color.view(-1, 1, 1, 1, 1)
sigma_view(sigma_color) ==
    LET shape == <<Len(sigma_color.v), 1, 1, 1, 1>>
    IN  [shape |-> shape, data |-> [ix \in Idx(shape) |-> sigma_color.v[ix[1]]]]

\* (-0.5 / sigma_color**2 * color_distance_sq).exp() for a tensor sigma_color
color_kernel_of(sigma, distance) ==
    LET shape == BroadcastShape(sigma.shape, distance.shape)
    IN  [shape |-> shape,
         data |-> [ix \in Idx(shape) |-> color_weight(At(distance, ix), At(sigma, ix))]]

\* gaussian.get_gaussian_kernel2d: every component of kernel_size must be odd and
\* positive.
KernelSizeOk(kernel_size) ==
    LET u == unpack_2d_ks(kernel_size)
    IN  \A i \in 1..2 : u[i] > 0 /\ u[i] % 2 = 1

\* The 1-D Gaussian window of the given size: exp(-x^2 / (2 sigma^2)) at the
\* offsets x = i - size // 2, before the normalisation by the window's sum.
gaussian(size, sigma) ==
    [i \in 1..size |->
        ExpQ(((i - 1) - (size \div 2)) * ((i - 1) - (size \div 2)), 2 * sigma * sigma)]

\* gaussian.get_gaussian_kernel2d(kernel_size, sigma_space): kernel_size = (ky, kx),
\* sigma_space = (sigma_y, sigma_x); the result has shape (1, ky, kx), rows along y.
\* Entries are the products of the two 1-D windows; the normalising constant, the
\* same for every entry, is left out (it cancels in line 76).
get_gaussian_kernel2d(kernel_size, sigma_space) ==
    LET u == unpack_2d_ks(kernel_size)
        gy == gaussian(u[1], sigma_space[1])
        gx == gaussian(u[2], sigma_space[2])
        shape == <<1, u[1], u[2]>>
    IN  [shape |-> shape, data |-> [ix \in Idx(shape) |-> gy[ix[2]] * gx[ix[3]]]]

\* Tensor.view(-1, 1, 1, 1, n) of a (1, rows, cols) tensor: row-major flattening.
view_flat(t, n) ==
    LET shape == <<1, 1, 1, 1, n>>
        cols == t.shape[3]
    IN  [shape |-> shape,
         data |-> [ix \in Idx(shape) |->
            t.data[<<1, ((ix[5] - 1) \div cols) + 1, ((ix[5] - 1) % cols) + 1>>]]]

\* Tensor.sum(-1)
sum_last(t) ==
    LET n == Len(t.shape)
        shape == SubSeq(t.shape, 1, n - 1)
    IN  [shape |-> shape,
         data |-> [ix \in Idx(shape) |->
            FSum([k \in 1..t.shape[n] |-> t.data[Append(ix, k)]])]]

\* num / den with broadcasting; the quotient is kept as the pair <<num, den>>.
div(num, den) ==
    LET shape == BroadcastShape(num.shape, den.shape)
    IN  [shape |-> shape, data |-> [ix \in Idx(shape) |-> <<At(num, ix), At(den, ix)>>]]

\* ------------------------------------------------------- bilateral_blur
\* Lines 51-58: the entry checks; "none" when they pass, else the error raised.
\* The input is always a tensor; sigma_color, when a tensor, is one-dimensional.
entry_check(image, sigma_color) ==
    IF ~KORNIA_CHECK_SHAPE(image.shape, <<"B", "C", "H", "W">>) THEN "TypeError"
    ELSE IF sigma_color.is_tensor /\ ~KORNIA_CHECK_SHAPE(<<Len(sigma_color.v)>>, <<"B">>)
    THEN "TypeError"
    ELSE "none"

\* Line 57: kx, ky = _unpack_2d_ks(kernel_size)
unpacked_kx(kernel_size) == unpack_2d_ks(kernel_size)[1]
unpacked_ky(kernel_size) == unpack_2d_ks(kernel_size)[2]

\* Line 58: pad_x, pad_y = _compute_zero_padding(kernel_size)
padding_x(kernel_size) == compute_zero_padding(kernel_size)[1]
padding_y(kernel_size) == compute_zero_padding(kernel_size)[2]

\* Mutant of pad_arg: the whole padding on the right and at the bottom.
pad_arg_one_sided(px, py) == <<0, 2 * px, 0, 2 * py>>

\* Line 60: the pad tuple handed to pad()
pad_arg(px, py) == <<px, px, py, py>>

\* Mutant of pad_mode: mode=border_type left out, pad's default mode is used.
pad_mode_default(bt) == "constant"

\* Line 60: mode=border_type
pad_mode(bt) == bt

\* Mutant of unfold_rows: unfold(2, kx, 1) instead of unfold(2, ky, 1).
unfold_rows_kx(x, y) == x

\* Line 61: the window lengths handed to unfold(2, .) and unfold(3, .)
unfold_rows(x, y) == y
unfold_cols(x, y) == x

\* Mutant of color_kernel_at: a tensor sigma_color is read at its first entry for
\* every batch element.
color_kernel_first_entry(sigma_color, distance) ==
    [shape |-> distance.shape,
     data |-> [ix \in Idx(distance.shape) |->
                   color_weight(distance.data[ix], sigma_color.v[1])]]

\* Line 70 for a tensor sigma_color: the batch entry of sigma_color that the index
\* ix of the color kernel reads.
ColorKernelOk(sigma_color, distance) ==
    IF sigma_color.is_tensor
    THEN BroadcastOk(sigma_view(sigma_color).shape, distance.shape)
    ELSE sigma_color.v[1] * sigma_color.v[1] # 0

color_kernel_at(sigma_color, distance) ==
    IF sigma_color.is_tensor
    THEN color_kernel_of(sigma_view(sigma_color), distance)
    ELSE [shape |-> distance.shape,
          data |-> [ix \in Idx(distance.shape) |->
                        color_weight(distance.data[ix], sigma_color.v[1])]]

\* Mutant of aggregate: the division by the weight sum left out.
aggregate_unnormalised(unf, kern) ==
    LET shape == SubSeq(kern.shape, 1, 4)
    IN  div(sum_last(mul(unf, kern)), [shape |-> shape, data |-> [ix \in Idx(shape) |-> 1]])

\* Lines 75-76
aggregate(unf, kern) == div(sum_last(mul(unf, kern)), sum_last(kern))

\* The whole function: [err, out], out = NoTensor when an error is raised.
Raise(e) == [err |-> e, out |-> NoTensor]

bilateral_blur(image, kernel_size, sigma_color, sigma_space, border_type, color_distance_type) ==
    IF entry_check(image, sigma_color) # "none" THEN Raise(entry_check(image, sigma_color))
    ELSE
    LET x == unpacked_kx(kernel_size)
        y == unpacked_ky(kernel_size)
        p == pad_arg(padding_x(kernel_size), padding_y(kernel_size))
    IN  IF ~PadOk(image, p, pad_mode(border_type)) THEN Raise("RuntimeError")
        ELSE
        LET pd == pad(image, p, pad_mode(border_type))
        IN  IF ~UnfoldOk(pd, unfold_rows(x, y), unfold_cols(x, y)) THEN Raise("RuntimeError")
            ELSE
            LET unf == unfold(pd, unfold_rows(x, y), unfold_cols(x, y))
                ctr == unsqueeze(image)
            IN  IF ~BroadcastOk(unf.shape, ctr.shape) THEN Raise("RuntimeError")
                ELSE IF color_distance_type \notin {"l1", "l2"} THEN Raise("ValueError")
                ELSE
                LET d == sub(unf, ctr)
                    dist == IF color_distance_type = "l1" THEN l1_distance(d)
                            ELSE l2_distance(d)
                IN  IF ~ColorKernelOk(sigma_color, dist)
                    THEN Raise(IF sigma_color.is_tensor THEN "RuntimeError"
                               ELSE "ZeroDivisionError")
                    ELSE IF ~KernelSizeOk(kernel_size) THEN Raise("Exception")
                    ELSE
                    LET ck == color_kernel_at(sigma_color, dist)
                        sk == view_flat(get_gaussian_kernel2d(kernel_size, sigma_space), x * y)
                    IN  [err |-> "none", out |-> aggregate(unf, mul(sk, ck))]

\* ------------------------------------------------------- BilateralBlur
\* Mutant of BilateralBlur_init: border_type is not stored, the default stays.
BilateralBlur_init_default_border(ks, sc, ss, bt, cdt) ==
    [kernel_size |-> ks, sigma_color |-> sc, sigma_space |-> ss,
     border_type |-> "reflect", color_distance_type |-> cdt]

\* __init__: the five arguments are stored under their own names.
BilateralBlur_init(ks, sc, ss, bt, cdt) ==
    [kernel_size |-> ks, sigma_color |-> sc, sigma_space |-> ss,
     border_type |-> bt, color_distance_type |-> cdt]

\* forward: the arguments of its call of bilateral_blur.
forward_args(obj, image) ==
    [input |-> image, kernel_size |-> obj.kernel_size, sigma_color |-> obj.sigma_color,
     sigma_space |-> obj.sigma_space, border_type |-> obj.border_type,
     color_distance_type |-> obj.color_distance_type]

\* ------------------------------------------------------------ the state
VARIABLES
    self,               \* the BilateralBlur object's five fields
    ctor,               \* the five values its constructor was given (history)
    pc,                 \* "idle", the line bilateral_blur is about to run, "returned" or "raised"
    err,                \* the error raised, "none" otherwise
    input, kernel_size, sigma_color, sigma_space, border_type, color_distance_type,
    kx, ky, pad_x, pad_y,
    padded, unfolded, diff, color_distance_sq, color_kernel, space_kernel, kernel,
    out                 \* the returned tensor

params == <<input, kernel_size, sigma_color, sigma_space, border_type, color_distance_type>>
sizes == <<kx, ky, pad_x, pad_y>>
arrays == <<padded, unfolded, diff, color_distance_sq, color_kernel, space_kernel, kernel>>
vars == <<self, ctor, pc, err, params, sizes, arrays, out>>

NoArgs == [input |-> NoTensor, kernel_size |-> IntKernel(1), sigma_color |-> ScalarSigma(1),
           sigma_space |-> <<1, 1>>, border_type |-> "reflect", color_distance_type |-> "l1"]

\* The state after BilateralBlur(cfg...): no call has been made yet.
InitOn(Configs) ==
    /\ \E cfg \in Configs :
        /\ ctor = cfg
        /\ self = BilateralBlur_init(cfg.kernel_size, cfg.sigma_color, cfg.sigma_space,
                                     cfg.border_type, cfg.color_distance_type)
    /\ pc = "idle"
    /\ err = "none"
    /\ input = NoTensor
    /\ kernel_size = NoArgs.kernel_size
    /\ sigma_color = NoArgs.sigma_color
    /\ sigma_space = NoArgs.sigma_space
    /\ border_type = NoArgs.border_type
    /\ color_distance_type = NoArgs.color_distance_type
    /\ kx = 0 /\ ky = 0 /\ pad_x = 0 /\ pad_y = 0
    /\ padded = NoTensor /\ unfolded = NoTensor /\ diff = NoTensor
    /\ color_distance_sq = NoTensor /\ color_kernel = NoTensor
    /\ space_kernel = NoTensor /\ kernel = NoTensor
    /\ out = NoTensor

RaiseAt(e) ==
    /\ pc' = "raised"
    /\ err' = e

\* forward(image): the call of bilateral_blur and its lines 51-58.
Forward(image) ==
    /\ pc \in {"idle", "returned", "raised"}
    /\ LET a == forward_args(self, image)
       IN  /\ input' = a.input
           /\ kernel_size' = a.kernel_size
           /\ sigma_color' = a.sigma_color
           /\ sigma_space' = a.sigma_space
           /\ border_type' = a.border_type
           /\ color_distance_type' = a.color_distance_type
           /\ IF entry_check(a.input, a.sigma_color) # "none"
              THEN /\ RaiseAt(entry_check(a.input, a.sigma_color))
                   /\ kx' = 0 /\ ky' = 0 /\ pad_x' = 0 /\ pad_y' = 0
              ELSE /\ pc' = "line60"
                   /\ err' = "none"
                   /\ kx' = unpacked_kx(a.kernel_size)
                   /\ ky' = unpacked_ky(a.kernel_size)
                   /\ pad_x' = padding_x(a.kernel_size)
                   /\ pad_y' = padding_y(a.kernel_size)
    /\ padded' = NoTensor /\ unfolded' = NoTensor /\ diff' = NoTensor
    /\ color_distance_sq' = NoTensor /\ color_kernel' = NoTensor
    /\ space_kernel' = NoTensor /\ kernel' = NoTensor
    /\ out' = NoTensor
    /\ UNCHANGED <<self, ctor>>

\* Line 60
Pad ==
    /\ pc = "line60"
    /\ IF PadOk(input, pad_arg(pad_x, pad_y), pad_mode(border_type))
       THEN /\ padded' = pad(input, pad_arg(pad_x, pad_y), pad_mode(border_type))
            /\ pc' = "line61"
            /\ err' = err
       ELSE /\ RaiseAt("RuntimeError")
            /\ padded' = padded
    /\ UNCHANGED <<self, ctor, params, sizes, unfolded, diff, color_distance_sq,
                   color_kernel, space_kernel, kernel, out>>

\* Line 61
Unfold ==
    /\ pc = "line61"
    /\ IF UnfoldOk(padded, unfold_rows(kx, ky), unfold_cols(kx, ky))
       THEN /\ unfolded' = unfold(padded, unfold_rows(kx, ky), unfold_cols(kx, ky))
            /\ pc' = "line63"
            /\ err' = err
       ELSE /\ RaiseAt("RuntimeError")
            /\ unfolded' = unfolded
    /\ UNCHANGED <<self, ctor, params, sizes, padded, diff, color_distance_sq,
                   color_kernel, space_kernel, kernel, out>>

\* Line 63
Diff ==
    /\ pc = "line63"
    /\ IF BroadcastOk(unfolded.shape, unsqueeze(input).shape)
       THEN /\ diff' = sub(unfolded, unsqueeze(input))
            /\ pc' = "line64"
            /\ err' = err
       ELSE /\ RaiseAt("RuntimeError")
            /\ diff' = diff
    /\ UNCHANGED <<self, ctor, params, sizes, padded, unfolded, color_distance_sq,
                   color_kernel, space_kernel, kernel, out>>

\* Lines 64-69
ColorDistance ==
    /\ pc = "line64"
    /\ IF color_distance_type = "l1"
       THEN /\ color_distance_sq' = l1_distance(diff)
            /\ pc' = "line70"
            /\ err' = err
       ELSE IF color_distance_type = "l2"
       THEN /\ color_distance_sq' = l2_distance(diff)
            /\ pc' = "line70"
            /\ err' = err
       ELSE /\ RaiseAt("ValueError")
            /\ color_distance_sq' = color_distance_sq
    /\ UNCHANGED <<self, ctor, params, sizes, padded, unfolded, diff,
                   color_kernel, space_kernel, kernel, out>>

\* Line 70
ColorKernel ==
    /\ pc = "line70"
    /\ IF ColorKernelOk(sigma_color, color_distance_sq)
       THEN /\ color_kernel' = color_kernel_at(sigma_color, color_distance_sq)
            /\ pc' = "line72"
            /\ err' = err
       ELSE /\ RaiseAt(IF sigma_color.is_tensor THEN "RuntimeError" ELSE "ZeroDivisionError")
            /\ color_kernel' = color_kernel
    /\ UNCHANGED <<self, ctor, params, sizes, padded, unfolded, diff, color_distance_sq,
                   space_kernel, kernel, out>>

\* Lines 72-73
SpaceKernel ==
    /\ pc = "line72"
    /\ IF KernelSizeOk(kernel_size)
       THEN /\ space_kernel' = view_flat(get_gaussian_kernel2d(kernel_size, sigma_space), kx * ky)
            /\ pc' = "line75"
            /\ err' = err
       ELSE /\ RaiseAt("Exception")
            /\ space_kernel' = space_kernel
    /\ UNCHANGED <<self, ctor, params, sizes, padded, unfolded, diff, color_distance_sq,
                   color_kernel, kernel, out>>

\* Lines 75-77
Aggregate ==
    /\ pc = "line75"
    /\ kernel' = mul(space_kernel, color_kernel)
    /\ out' = aggregate(unfolded, mul(space_kernel, color_kernel))
    /\ pc' = "returned"
    /\ UNCHANGED <<self, ctor, err, params, sizes, padded, unfolded, diff,
                   color_distance_sq, color_kernel, space_kernel>>

Step == Pad \/ Unfold \/ Diff \/ ColorDistance \/ ColorKernel \/ SpaceKernel \/ Aggregate

\* ------------------------------------------------------------ the inputs
Pixel(p, ix) == (p[1] + p[2] * (ix[1] + ix[2]) + p[3] * ix[3] + p[4] * ix[4]) % (MaxVal + 1)

Image(shape, p) == [shape |-> shape, data |-> [ix \in Idx(shape) |-> Pixel(p, ix)]]

\* An image without the batch axis: (C, H, W).
Image3(shape) == [shape |-> shape, data |-> [ix \in Idx(shape) |-> 0]]

Shapes(Bs, Cs) == {<<b, c, h, w>> : b \in Bs, c \in Cs, h \in 1..MaxH, w \in 1..MaxW}

KernelSizes ==
    {IntKernel(k) : k \in 1..MaxK} \cup {PairKernel(a, b) : a \in 1..MaxK, b \in 1..MaxK}

ConfigSet(Ks, Scs, Sss, Bts, Cdts) ==
    {[kernel_size |-> k, sigma_color |-> sc, sigma_space |-> ss, border_type |-> bt,
      color_distance_type |-> cdt] : k \in Ks, sc \in Scs, ss \in Sss, bt \in Bts, cdt \in Cdts}

SigmaVals == {SigmaTiny, 1, 2}

\* A sigma_color tensor of length n: first entry s, every other entry t.
SigmaVector(n, s, t) == TensorSigma([i \in 1..n |-> IF i = 1 THEN s ELSE t])

SigmaScalars == {ScalarSigma(s) : s \in SigmaVals}

\* Kernel sizes, borders and distance types, on images of every height and width
\* and on an image without the batch axis.
KernelConfigs ==
    ConfigSet(KernelSizes, {ScalarSigma(1)}, {<<1, 1>>, <<1, 2>>}, Borders, {"l1", "l2", "l3"})

KernelImages ==
    {Image(s, <<0, 0, 1, 1>>) : s \in Shapes({MaxB}, {MaxC})} \cup {Image3(<<MaxC, MaxH, MaxW>>)}

InitKernel == InitOn(KernelConfigs)
NextKernel == (\E image \in KernelImages : Forward(image)) \/ Step
SpecKernel == InitKernel /\ [][NextKernel]_vars

\* Scalar sigma_color and sigma_color tensors of length 1, MaxB and MaxB + 1, on
\* batches of size 1 and MaxB.
SigmaConfigs ==
    ConfigSet({IntKernel(3), PairKernel(1, 3)},
              SigmaScalars \cup {SigmaVector(n, s, t) :
                                    n \in {1, MaxB, MaxB + 1}, s \in SigmaVals, t \in SigmaVals},
              {<<1, 1>>}, {"reflect", "constant"}, {"l1", "l2"})

SigmaImages ==
    {Image(<<b, MaxC, h, MaxW>>, <<0, 1, 1, 1>>) : b \in {1, MaxB}, h \in {1, MaxH}}

InitSigma == InitOn(SigmaConfigs)
NextSigma == (\E image \in SigmaImages : Forward(image)) \/ Step
SpecSigma == InitSigma /\ [][NextSigma]_vars

\* Spatially constant and varying pixels under every border type.
PixelConfigs ==
    ConfigSet({IntKernel(3), PairKernel(1, 3)},
              SigmaScalars \cup {SigmaVector(MaxB, 1, 2), SigmaVector(MaxB, SigmaTiny, 1)},
              {<<2, 1>>}, Borders, {"l1", "l2"})

PixelImages ==
    {Image(<<MaxB, MaxC, h, MaxW>>, p) :
        h \in {1, MaxH}, p \in {<<1, 1, 0, 0>>, <<0, 1, 1, 1>>, <<0, 0, 2, 1>>}}

InitPixels == InitOn(PixelConfigs)
NextPixels == (\E image \in PixelImages : Forward(image)) \/ Step
SpecPixels == InitPixels /\ [][NextPixels]_vars

\* ------------------------------------------------------------ the claims
Terminal == pc \in {"returned", "raised"}

\* The errors raised by a check of the arguments: KORNIA_CHECK_SHAPE (TypeError),
\* line 69 (ValueError) and the kernel-size check (Exception).  A RuntimeError comes
\* out of an array operation, a ZeroDivisionError out of line 70's division.
ValidationErrors == {"TypeError", "ValueError", "Exception"}

NoArrayYet == padded = NoTensor /\ unfolded = NoTensor /\ diff = NoTensor

SigmaMatchesBatch == sigma_color.is_tensor => Len(sigma_color.v) = input.shape[1]

\* No entry of sigma_color has a square that underflows to zero.
SigmaSquareNonZero == \A i \in 1..Len(sigma_color.v) : sigma_color.v[i] * sigma_color.v[i] # 0

ValidCall ==
    /\ Len(input.shape) = 4
    /\ KernelSizeOk(kernel_size)
    /\ border_type \in Borders
    /\ color_distance_type \in {"l1", "l2"}
    /\ SigmaMatchesBatch

\* The quotient o = <<num, den>> is the value v.
Equal(o, v) == o[2] > 0 /\ o[1] = v * o[2]

SpatiallyConstant(image) ==
    \A ix \in Idx(image.shape) : \A iy \in Idx(image.shape) :
        (ix[1] = iy[1] /\ ix[2] = iy[2]) => image.data[ix] = image.data[iy]

\* The flattened index of the window's center sample.
Center == pad_y * kx + pad_x + 1

\* C1: a valid call pads each axis and unfolds it with matching amounts
\* (H + 2*pad - k + 1 = H, W + 2*pad - k + 1 = W), and the array it returns has
\* the shape (B, C, H, W) of the input.
C1_ShapePreserved ==
    ValidCall =>
        /\ unfolded # NoTensor => unfolded.shape = Append(input.shape, kx * ky)
        /\ pc = "returned" => out.shape = input.shape

C1_Witness ==
    /\ pc = "returned"
    /\ ValidCall
    /\ kx # ky
    /\ border_type = "constant"
    /\ input.shape[3] # input.shape[4]
    /\ out.shape = input.shape

\* C2: a call with a color_distance_type other than 'l1' and 'l2' ends in a
\* validation error, raised before any array step (padding, window extraction,
\* subtraction) has happened.
C2_RejectedBeforeAnyArrayStep ==
    /\ (pc = "raised" /\ err = "ValueError") => NoArrayYet
    /\ (Terminal /\ color_distance_type \notin {"l1", "l2"} /\ Len(input.shape) = 4
            /\ KernelSizeOk(kernel_size)
            /\ PadOk(input, pad_arg(pad_x, pad_y), pad_mode(border_type)))
        => (pc = "raised" /\ err \in ValidationErrors)

\* C5: a call with a kernel size that has an even or non-positive component ends
\* in a validation error and returns no output.
C5_BadKernelSizeValidationError ==
    (Terminal /\ Len(input.shape) = 4 /\ ~KernelSizeOk(kernel_size)
        /\ PadOk(input, pad_arg(pad_x, pad_y), pad_mode(border_type))) =>
        (pc = "raised" /\ err \in ValidationErrors /\ out = NoTensor)

\* What does hold for such a kernel size: no output is returned.
C5_BadKernelSizeNoOutput ==
    (Terminal /\ ~KernelSizeOk(kernel_size)) => (pc = "raised" /\ out = NoTensor)

\* C6: forward(image) has the outcome of bilateral_blur(image, ...) called with the
\* five values given at construction, after any earlier calls, and the five stored
\* fields keep those values.
C6_ForwardIsBilateralBlur ==
    /\ self.kernel_size = ctor.kernel_size
    /\ self.sigma_color = ctor.sigma_color
    /\ self.sigma_space = ctor.sigma_space
    /\ self.border_type = ctor.border_type
    /\ self.color_distance_type = ctor.color_distance_type
    /\ Terminal =>
        [err |-> err, out |-> out] =
            bilateral_blur(input, ctor.kernel_size, ctor.sigma_color, ctor.sigma_space,
                           ctor.border_type, ctor.color_distance_type)

C6_Witness ==
    /\ pc = "returned"
    /\ ctor.border_type = "replicate"
    /\ ctor.color_distance_type = "l2"
    /\ ctor.kernel_size = PairKernel(1, 3)
    /\ ctor.sigma_space = <<1, 2>>
    /\ out.shape = input.shape

\* C9: flattened index k of the window extraction and of the spatial weights name
\* the same (row offset, column offset): the spatial kernel has as many rows as the
\* window unfolded along H and as many columns as the window unfolded along W, and
\* the weight at k is the Gaussian weight of sample k's own offset.
C9_WindowOrderConsistent ==
    space_kernel # NoTensor =>
        LET rows == unfold_rows(kx, ky)
            cols == unfold_cols(kx, ky)
            g == get_gaussian_kernel2d(kernel_size, sigma_space)
            gy == gaussian(rows, sigma_space[1])
            gx == gaussian(cols, sigma_space[2])
        IN  /\ g.shape = <<1, rows, cols>>
            /\ \A k \in 1..(rows * cols) :
                space_kernel.data[<<1, 1, 1, 1, k>>] =
                    gy[((k - 1) \div cols) + 1] * gx[((k - 1) % cols) + 1]

WindowInside(ix) ==
    /\ ix[3] - pad_y >= 1 /\ ix[3] + pad_y <= input.shape[3]
    /\ ix[4] - pad_x >= 1 /\ ix[4] + pad_x <= input.shape[4]

C4_SigmaLengthMismatchRejected ==
    (Terminal /\ Len(input.shape) = 4 /\ ~SigmaMatchesBatch
        /\ PadOk(input, pad_arg(pad_x, pad_y), pad_mode(border_type))) =>
        (pc = "raised" /\ err \in ValidationErrors /\ NoArrayYet /\ out = NoTensor)

\* C7: where the combined-weight sum is strictly positive, the output is a convex
\* combination of the window's samples: every weight is >= 0, the denominator is
\* the sum of the weights, the numerator the weighted sum of the samples, and the
\* output lies between the least and the greatest sample.
C7_ConvexCombination ==
    pc = "returned" =>
        \A ix \in Idx(out.shape) :
            LET K == unfolded.shape[5]
                w == [k \in 1..K |-> At(kernel, Append(ix, k))]
                u == [k \in 1..K |-> At(unfolded, Append(ix, k))]
                num == out.data[ix][1]
                den == out.data[ix][2]
            IN  den > 0 =>
                    /\ \A k \in 1..K : w[k] >= 0
                    /\ den = SeqSum(w)
                    /\ num = SeqSum([k \in 1..K |-> u[k] * w[k]])
                    /\ \E k \in 1..K : u[k] * den <= num
                    /\ \E k \in 1..K : num <= u[k] * den

C7_Witness ==
    /\ pc = "returned"
    /\ \E ix \in Idx(out.shape) :
        LET K == unfolded.shape[5]
            num == out.data[ix][1]
            den == out.data[ix][2]
        IN  /\ den > 0
            /\ \E k \in 1..K : At(unfolded, Append(ix, k)) * den < num
            /\ \E k \in 1..K : num < At(unfolded, Append(ix, k)) * den
            /\ \E j \in 1..K : \E k \in 1..K :
                 0 < At(kernel, Append(ix, j)) /\ At(kernel, Append(ix, j)) < At(kernel, Append(ix, k))

\* The vector of length B whose entries all equal the scalar sigma_color.
Repeated == TensorSigma([b \in 1..input.shape[1] |-> sigma_color.v[1]])

\* C8 as stated: a scalar sigma_color has the outcome of the length-B vector with
\* all entries equal to it, and with a length-B vector the color weight of batch
\* element b is exp(-0.5 * distance / sigma_color(b)^2).
C8_ScalarIsRepeatedVector ==
    /\ (Terminal /\ Len(input.shape) = 4 /\ ~sigma_color.is_tensor) =>
        [err |-> err, out |-> out] =
            bilateral_blur(input, kernel_size, Repeated, sigma_space, border_type,
                           color_distance_type)
    /\ (color_kernel # NoTensor /\ sigma_color.is_tensor /\ SigmaMatchesBatch) =>
        \A ix \in Idx(color_kernel.shape) :
            color_kernel.data[ix] =
                color_weight(color_distance_sq.data[ix], sigma_color.v[ix[1]])

\* C8 as amended: the same, for a scalar sigma_color whose square does not
\* underflow to zero.
C8_ScalarIsRepeatedVectorAmended ==
    /\ (Terminal /\ Len(input.shape) = 4 /\ ~sigma_color.is_tensor /\ SigmaSquareNonZero) =>
        [err |-> err, out |-> out] =
            bilateral_blur(input, kernel_size, Repeated, sigma_space, border_type,
                           color_distance_type)
    /\ (color_kernel # NoTensor /\ sigma_color.is_tensor /\ SigmaMatchesBatch) =>
        \A ix \in Idx(color_kernel.shape) :
            color_kernel.data[ix] =
                color_weight(color_distance_sq.data[ix], sigma_color.v[ix[1]])

C8_Witness ==
    /\ pc = "returned"
    /\ ~sigma_color.is_tensor
    /\ SigmaSquareNonZero
    /\ input.shape[1] > 1
    /\ \E ix \in Idx(color_kernel.shape) : \E iy \in Idx(color_kernel.shape) :
        /\ ix[1] # iy[1]
        /\ 0 < color_kernel.data[ix] /\ color_kernel.data[ix] < 100
        /\ 0 < color_kernel.data[iy] /\ color_kernel.data[iy] < 100

====
